---- MODULE Spec2Model ----
(***************************************************************************)
(* The query-resolution workflow of the H&M data assistant: the LangGraph   *)
(* state machine of app/factory.py over the step handlers of app/nodes.py, *)
(* driven by DataAssistant.process_query of app.py.                        *)
(*                                                                         *)
(* A text (Python str) is a sequence of string tokens; the empty text is   *)
(* <<>> and no token is the empty string.  An f-string is a concatenation. *)
(* Timestamps and console/log output are not modelled.                     *)
(***************************************************************************)
EXTENDS Integers, Sequences, FiniteSets, TLC

----------------------------------------------------------------------------
(* Bounds of the model *)

\* largest value of MAX_RETRIES the environment configures
MaxRetriesCfg == 3
\* largest number of rows the query engine returns
MaxRows == 150
\* largest number of exchanges the persistent store holds before the turn
MaxStored == 4
\* a larger MAX_RETRIES, under which the backoff delay reaches its cap
MaxBackoffRetries == 6
\* largest number of process_query calls in one session
MaxTurns == 101
\* largest number of feedback entries recorded for a user
MaxFeedbackEntries == 3
\* number of process_query calls an assistant serves in the two-call runs
MaxCalls == 2
\* largest number of tokens of a model reply to generate_sql
MaxReplyLen == 4

(* Program constants *)

DisplayLimit == 100
HistoryWindow == 3
\* SESSION_CONFIG["max_conversation_history"]
MaxConversationHistory == 100

----------------------------------------------------------------------------
(* Text helpers *)

WS == {" ", "\n"}

\* the code-fence markers: three backquotes followed by sql, and three backquotes alone
FenceSql == "<fence>sql"

Fence == "<fence>"

Txt(v) == IF v = "" THEN <<>> ELSE <<v>>

Contains(s, tok) == \E i \in 1..Len(s) : s[i] = tok

\* str.find / str.rfind on a token: 0 when absent
Find(s, tok) == IF Contains(s, tok) THEN CHOOSE i \in 1..Len(s) : s[i] = tok /\ \A j \in 1..(i-1) : s[j] # tok ELSE 0

RFind(s, tok) == IF Contains(s, tok) THEN CHOOSE i \in 1..Len(s) : s[i] = tok /\ \A j \in (i+1)..Len(s) : s[j] # tok ELSE 0

IsPrefix(p, s) == Len(p) <= Len(s) /\ SubSeq(s, 1, Len(p)) = p

IsSuffix(p, s) == Len(p) <= Len(s) /\ SubSeq(s, Len(s) - Len(p) + 1, Len(s)) = p

\* s[-k:]
\* mutant: the slice is taken from the front
LastK_FromStart(s, k) == IF Len(s) <= k THEN s ELSE SubSeq(s, 1, k)

LastK(s, k) == IF Len(s) <= k THEN s ELSE SubSeq(s, Len(s) - k + 1, Len(s))

\* str.strip()
RECURSIVE LStrip(_)
LStrip(s) == IF s # <<>> /\ Head(s) \in WS THEN LStrip(Tail(s)) ELSE s

RECURSIVE RStrip(_)
RStrip(s) == IF s # <<>> /\ s[Len(s)] \in WS THEN RStrip(SubSeq(s, 1, Len(s) - 1)) ELSE s

Strip(s) == RStrip(LStrip(s))

\* s.split(tok)[0]
SplitFirst(s, tok) == IF Contains(s, tok) THEN SubSeq(s, 1, Find(s, tok) - 1) ELSE s

\* s.split(tok)[1], for a text that contains tok
SplitSecond(s, tok) == SplitFirst(SubSeq(s, Find(s, tok) + 1, Len(s)), tok)

----------------------------------------------------------------------------
(* app/utils.py *)

SCHEMAS == <<"=== INCIDENT ===", "\n", "number: STRING">>

PyDictGet(d, k, default) == IF k \in DOMAIN d THEN d[k] ELSE default

\* json.loads of a flat object: "{" (key value)* "}"; a later key wins
JsonValid(js) ==
    /\ Len(js) >= 2
    /\ js[1] = "{"
    /\ js[Len(js)] = "}"
    /\ (Len(js) - 2) % 2 = 0
    /\ \A i \in 2..(Len(js) - 1) : js[i] \notin {"{", "}"}

JsonLoads(js) ==
    LET inner == SubSeq(js, 2, Len(js) - 1)
        n == Len(inner) \div 2
        keys == {inner[2 * i - 1] : i \in 1..n}
        lastOf(k) == CHOOSE i \in 1..n : inner[2 * i - 1] = k /\ \A j \in (i+1)..n : inner[2 * j - 1] # k
    IN [k \in keys |-> inner[2 * lastOf(k)]]

parse_json_response(reply) ==
    LET response == Strip(reply)
    IN IF Contains(response, "{") /\ Contains(response, "}")
       THEN LET json_str == SubSeq(response, Find(response, "{"), RFind(response, "}"))
            IN IF JsonValid(json_str)
               THEN JsonLoads(json_str)
               ELSE [error |-> "Invalid JSON", raw_response |-> response]
       ELSE [error |-> "No JSON found in response"]

Min(a, b) == IF a < b THEN a ELSE b

RECURSIVE Pow2(_)
Pow2(n) == IF n <= 0 THEN 1 ELSE 2 * Pow2(n - 1)

\* mutant: the delay is not capped
exponential_backoff_Uncapped(retry_count) == Pow2(retry_count)

\* the delay exponential_backoff sleeps
exponential_backoff(retry_count) == Min(Pow2(retry_count), 16)

----------------------------------------------------------------------------
(* State *)

VARIABLES
    max_retries,                  \* config.max_retries (env MAX_RETRIES)
    use_blob_sessions,            \* DataAssistant.use_blob_sessions
    user_conversation_histories,  \* user id -> sequence of <<question, answer>> (absent = empty)
    conversation_data_db,         \* sequence of conversation entries
    blob,                         \* persisted {user_id}/conversations.json: user id -> history
    call,                         \* arguments of the process_query call being served
    state,                        \* the Run State (AgentState) of the call
    pc,                           \* "idle", the node to run next, "END", "raised" or "returned"
    result,                       \* what process_query returned
    obs,                          \* observations of the current call (history variables)
    feedback_and_comments,        \* user id -> sequence of feedback entries (absent = empty)
    feedback_blob,                \* persisted {user_id}/feedback.json: user id -> entries
    runs,                         \* threaded server: thread -> the process_query call it serves
    heap                          \* threaded server: the messages list objects, by address

vars == <<max_retries, use_blob_sessions, user_conversation_histories, conversation_data_db, blob, call, state, pc, result, obs,
          feedback_and_comments, feedback_blob, runs, heap>>

assistant == <<max_retries, use_blob_sessions, user_conversation_histories, conversation_data_db, blob>>

feedback == <<feedback_and_comments, feedback_blob>>

threaded == <<runs, heap>>

Users == {"u1"}

\* user_id = None (or the empty string): falsy in "if user_id:"
NoUser == ""

UserPrompts == {<<>>, <<"Hi there!">>, <<"Show me incidents from 2024">>}

\* prompts whose lower-case form contains "hi", "hello" or "hey"
GreetingPrompts == {<<"Hi there!">>}

StoredHistory(n) == [i \in 1..n |-> <<<<"q" \o ToString(i)>>, <<"a" \o ToString(i)>>>>]

\* sizes of the history the persistent store holds before the call
StoredSizes == {0, HistoryWindow - 1, MaxStored}

LlmOk(content) == [ok |-> TRUE, content |-> content]

\* llm.invoke raised; content is str(e)
LlmError == [ok |-> FALSE, content |-> <<"model unavailable">>]

ClassifyReplies ==
    { LlmOk(<<"{", "intent", "greeting", "}">>),
      LlmOk(<<"{", "intent", "general", "rephrased", "", "}">>),
      LlmOk(<<"{", "intent", "data_query", "rephrased", "incidents opened in 2024", "}">>),
      LlmOk(<<"{", "intent", "data_query", "}">>),
      LlmOk(<<"{", "intent", "smalltalk", "}">>),
      LlmOk(<<"{", "rephrased", "incidents opened in 2024", "}">>),
      LlmOk(<<"{", "intent", "}">>),
      LlmOk(<<"I cannot tell">>),
      LlmError }

GeneralReplies == {LlmOk(<<"Hello! How can I help?">>), LlmOk(<<>>), LlmError}

SqlReplies ==
    { LlmOk(<<"SELECT 1">>),
      LlmOk(<<FenceSql, "\n", "SELECT 1", "\n", Fence>>),
      LlmOk(<<"Here it is:", "\n", Fence, "\n", "SELECT 1", "\n", Fence, "\n", "Done.">>),
      LlmOk(<<FenceSql, "\n", Fence>>),
      LlmOk(<<>>),
      LlmError }

AnalyzerReplies ==
    { LlmOk(<<"{", "analysis", "unknown column", "action", "retry", "suggested_sql", "SELECT 3", "}">>),
      LlmOk(<<"{", "analysis", "unknown column", "action", "retry", "}">>),
      LlmOk(<<"{", "analysis", "unknown column", "action", "rephrase", "}">>),
      LlmOk(<<"{", "action", "ask_user", "}">>),
      LlmOk(<<"{", "analysis", "unknown column", "action", "fail", "}">>),
      LlmOk(<<"{", "analysis", "unknown column", "action", "escalate", "}">>),
      LlmOk(<<"{", "analysis", "unknown column", "}">>),
      LlmOk(<<"retry">>),
      LlmError }

\* rows of a DataFrame of n rows, as to_markdown renders them
Rows(n) == [i \in 1..n |-> "row" \o ToString(i)]

DfSizes == {0, 1, DisplayLimit, DisplayLimit + 1, MaxRows}

\* what bq_client.execute_query does: a DataFrame, None, or one of its three errors
EngineOutcomes ==
    { [kind |-> "df", df |-> Rows(n), msg |-> <<>>] : n \in DfSizes }
    \cup { [kind |-> "none", df |-> <<>>, msg |-> <<>>] }
    \cup { [kind |-> "error", df |-> <<>>, msg |-> m] :
             m \in { <<"Invalid SQL: ", "400 Unrecognized name">>,
                     <<"BigQuery API error: ", "503 backend error">>,
                     <<"Unexpected error: ", "timed out">> } }

----------------------------------------------------------------------------
(* app/nodes.py: the step handlers, Run State -> Run State *)

\* mutant: a failure is recorded as an intent of its own
classify_intent_FailureIntent(s, llm) ==
    IF llm.ok
    THEN LET parsed == parse_json_response(llm.content)
         IN [s EXCEPT !.intent = PyDictGet(parsed, "intent", "error"),
                      !.rephrased_prompt = IF "rephrased" \in DOMAIN parsed THEN Txt(parsed["rephrased"]) ELSE s.user_prompt]
    ELSE [s EXCEPT !.intent = "error", !.rephrased_prompt = s.user_prompt]

classify_intent(s, llm) ==
    IF llm.ok
    THEN LET parsed == parse_json_response(llm.content)
         IN [s EXCEPT !.intent = PyDictGet(parsed, "intent", "general"),
                      !.rephrased_prompt = IF "rephrased" \in DOMAIN parsed THEN Txt(parsed["rephrased"]) ELSE s.user_prompt]
    ELSE [s EXCEPT !.intent = "general", !.rephrased_prompt = s.user_prompt]

general_response(s, llm) ==
    IF llm.ok
    THEN [s EXCEPT !.final_response = llm.content]
    ELSE IF s.user_prompt \in GreetingPrompts
         THEN [s EXCEPT !.final_response = <<"Hello! I'm your H&M data assistant. How can I help you with incident or problem data today?">>]
         ELSE [s EXCEPT !.final_response = <<"I can help you query and analyze your H&M incident and problem data. What would you like to know?">>]

\* mutant: retrieve_schemas presets the decision
retrieve_schemas_SetsAction(s) == [s EXCEPT !.relevant_schemas = SCHEMAS, !.analysis_action = "end"]

retrieve_schemas(s) == [s EXCEPT !.relevant_schemas = SCHEMAS]

\* mutant: the text after the sql fence is kept up to its end
CleanSql_KeepsTail(response) ==
    LET sql_query == Strip(response)
    IN IF Contains(sql_query, FenceSql)
       THEN Strip(SubSeq(sql_query, Find(sql_query, FenceSql) + 1, Len(sql_query)))
       ELSE IF Contains(sql_query, Fence)
            THEN Strip(SplitSecond(sql_query, Fence))
            ELSE sql_query

\* the clean-up of the model's reply in generate_sql
CleanSql(response) ==
    LET sql_query == Strip(response)
    IN IF Contains(sql_query, FenceSql)
       THEN Strip(SplitFirst(SplitSecond(sql_query, FenceSql), Fence))
       ELSE IF Contains(sql_query, Fence)
            THEN Strip(SplitSecond(sql_query, Fence))
            ELSE sql_query

generate_sql(s, llm) ==
    IF llm.ok
    THEN [s EXCEPT !.sql_query = CleanSql(llm.content)]
    ELSE [s EXCEPT !.error_msg = <<"Failed to generate SQL query: ">> \o llm.content]

\* execute_sql invokes the query engine only with a non-empty sql_query
InvokesEngine(s) == s.sql_query # <<>>

to_markdown(df) == <<"| number |", "|:---|">> \o df

TruncationNote(n) == <<"\n\n(Showing first 100 rows of ", ToString(n), " total)">>

\* mutant: truncates from 100 rows on
RenderResults_AtLimit(df) ==
    IF Len(df) >= DisplayLimit
    THEN to_markdown(SubSeq(df, 1, DisplayLimit)) \o TruncationNote(Len(df))
    ELSE to_markdown(df)

RenderResults(df) ==
    IF Len(df) > DisplayLimit
    THEN to_markdown(SubSeq(df, 1, DisplayLimit)) \o TruncationNote(Len(df))
    ELSE to_markdown(df)

\* mutant: echoes the rephrased prompt
ResultsHeading_Rephrased(s) == <<"Results for '">> \o s.rephrased_prompt \o <<"':">>

ResultsHeading(s) == <<"Results for '">> \o s.user_prompt \o <<"':">>

\* mutant: a failed execution is not counted
execute_sql_Uncounted(s, outcome) ==
    IF ~InvokesEngine(s)
    THEN [s EXCEPT !.error_msg = <<"No SQL query to execute">>]
    ELSE IF outcome.kind = "error"
         THEN [s EXCEPT !.error_msg = outcome.msg]
         ELSE IF outcome.kind = "df" /\ outcome.df # <<>>
              THEN [s EXCEPT !.results = RenderResults(outcome.df),
                             !.final_response = ResultsHeading(s) \o <<"\n">> \o RenderResults(outcome.df),
                             !.error_msg = <<>>]
              ELSE [s EXCEPT !.results = <<"No data found">>,
                             !.final_response = <<"No data found matching your query.">>,
                             !.error_msg = <<>>]

\* mutant: an empty result is treated as a failed attempt
execute_sql_EmptyIsError(s, outcome) ==
    IF ~InvokesEngine(s)
    THEN [s EXCEPT !.error_msg = <<"No SQL query to execute">>]
    ELSE IF outcome.kind = "error"
         THEN [s EXCEPT !.error_msg = outcome.msg, !.retry_count = s.retry_count + 1]
         ELSE IF outcome.kind = "df" /\ outcome.df # <<>>
              THEN [s EXCEPT !.results = RenderResults(outcome.df),
                             !.final_response = ResultsHeading(s) \o <<"\n">> \o RenderResults(outcome.df),
                             !.error_msg = <<>>]
              ELSE [s EXCEPT !.results = <<"No data found">>,
                             !.error_msg = <<"No data found matching your query.">>,
                             !.retry_count = s.retry_count + 1]

\* mutant: a failed execution discards the query
execute_sql_FailureDropsSql(s, outcome) ==
    IF ~InvokesEngine(s)
    THEN [s EXCEPT !.error_msg = <<"No SQL query to execute">>]
    ELSE IF outcome.kind = "error"
         THEN [s EXCEPT !.error_msg = outcome.msg, !.retry_count = s.retry_count + 1, !.sql_query = <<>>]
         ELSE IF outcome.kind = "df" /\ outcome.df # <<>>
              THEN [s EXCEPT !.results = RenderResults(outcome.df),
                             !.final_response = ResultsHeading(s) \o <<"\n">> \o RenderResults(outcome.df),
                             !.error_msg = <<>>]
              ELSE [s EXCEPT !.results = <<"No data found">>,
                             !.final_response = <<"No data found matching your query.">>,
                             !.error_msg = <<>>]

\* mutant: an empty sql_query counts as a failed attempt
execute_sql_EmptyCounted(s, outcome) ==
    IF ~InvokesEngine(s)
    THEN [s EXCEPT !.error_msg = <<"No SQL query to execute">>, !.retry_count = s.retry_count + 1]
    ELSE IF outcome.kind = "error"
         THEN [s EXCEPT !.error_msg = outcome.msg, !.retry_count = s.retry_count + 1]
         ELSE IF outcome.kind = "df" /\ outcome.df # <<>>
              THEN [s EXCEPT !.results = RenderResults(outcome.df),
                             !.final_response = ResultsHeading(s) \o <<"\n">> \o RenderResults(outcome.df),
                             !.error_msg = <<>>]
              ELSE [s EXCEPT !.results = <<"No data found">>,
                             !.final_response = <<"No data found matching your query.">>,
                             !.error_msg = <<>>]

\* mutant: a successful execution resets retry_count
execute_sql_SuccessResets(s, outcome) ==
    IF ~InvokesEngine(s)
    THEN [s EXCEPT !.error_msg = <<"No SQL query to execute">>]
    ELSE IF outcome.kind = "error"
         THEN [s EXCEPT !.error_msg = outcome.msg, !.retry_count = s.retry_count + 1]
         ELSE IF outcome.kind = "df" /\ outcome.df # <<>>
              THEN [s EXCEPT !.results = RenderResults(outcome.df),
                             !.final_response = ResultsHeading(s) \o <<"\n">> \o RenderResults(outcome.df),
                             !.error_msg = <<>>,
                             !.retry_count = 0]
              ELSE [s EXCEPT !.results = <<"No data found">>,
                             !.final_response = <<"No data found matching your query.">>,
                             !.error_msg = <<>>]

execute_sql(s, outcome) ==
    IF ~InvokesEngine(s)
    THEN [s EXCEPT !.error_msg = <<"No SQL query to execute">>]
    ELSE IF outcome.kind = "error"
         THEN [s EXCEPT !.error_msg = outcome.msg, !.retry_count = s.retry_count + 1]
         ELSE IF outcome.kind = "df" /\ outcome.df # <<>>
              THEN [s EXCEPT !.results = RenderResults(outcome.df),
                             !.final_response = ResultsHeading(s) \o <<"\n">> \o RenderResults(outcome.df),
                             !.error_msg = <<>>]
              ELSE [s EXCEPT !.results = <<"No data found">>,
                             !.final_response = <<"No data found matching your query.">>,
                             !.error_msg = <<>>]

\* mutant: the limit is checked one attempt late
CeilingReached_Late(s) == s.retry_count > max_retries

\* the retry-limit check of error_analyzer
CeilingReached(s) == s.retry_count >= max_retries

\* mutant: the model is asked whether or not there is an error
ConsultsModel_Always(s) == ~CeilingReached(s)

\* error_analyzer asks the model only for an error below the ceiling
ConsultsModel(s) == s.error_msg # <<>> /\ ~CeilingReached(s)

\* mutant: the suggested SQL is not installed
error_analyzer_IgnoresSuggestion(s, llm) ==
    IF s.error_msg = <<>>
    THEN [s EXCEPT !.analysis_action = "end"]
    ELSE IF CeilingReached(s)
    THEN [s EXCEPT !.analysis_action = "fail",
                   !.final_response = <<"Failed after ", ToString(max_retries), " attempts: ">> \o s.error_msg]
    ELSE IF ~llm.ok
    THEN [s EXCEPT !.analysis_action = "fail",
                   !.final_response = <<"An unexpected error occurred: ">> \o s.error_msg]
    ELSE LET parsed == parse_json_response(llm.content)
             action == PyDictGet(parsed, "action", "fail")
             a == [s EXCEPT !.analysis = Txt(PyDictGet(parsed, "analysis", ""))]
         IN CASE action = "retry" ->
                   [a EXCEPT !.analysis_action = "retry",
                             !.sql_query = s.sql_query]
              [] action = "rephrase" -> [a EXCEPT !.analysis_action = "rephrase"]
              [] action = "ask_user" ->
                   [a EXCEPT !.analysis_action = "ask_user",
                             !.final_response = <<"Error: ">> \o s.error_msg \o <<". Could you please clarify your question?">>]
              [] OTHER ->
                   [a EXCEPT !.analysis_action = "fail",
                             !.final_response = <<"Unable to process your request: ">> \o s.error_msg]

\* mutant: rephrase installs the suggested SQL as retry does
error_analyzer_RephraseInstalls(s, llm) ==
    IF s.error_msg = <<>>
    THEN [s EXCEPT !.analysis_action = "end"]
    ELSE IF CeilingReached(s)
    THEN [s EXCEPT !.analysis_action = "fail",
                   !.final_response = <<"Failed after ", ToString(max_retries), " attempts: ">> \o s.error_msg]
    ELSE IF ~llm.ok
    THEN [s EXCEPT !.analysis_action = "fail",
                   !.final_response = <<"An unexpected error occurred: ">> \o s.error_msg]
    ELSE LET parsed == parse_json_response(llm.content)
             action == PyDictGet(parsed, "action", "fail")
             a == [s EXCEPT !.analysis = Txt(PyDictGet(parsed, "analysis", ""))]
         IN CASE action = "retry" ->
                   [a EXCEPT !.analysis_action = "retry",
                             !.sql_query = IF "suggested_sql" \in DOMAIN parsed THEN Txt(parsed["suggested_sql"]) ELSE s.sql_query]
              [] action = "rephrase" ->
                   [a EXCEPT !.analysis_action = "rephrase",
                             !.sql_query = IF "suggested_sql" \in DOMAIN parsed THEN Txt(parsed["suggested_sql"]) ELSE s.sql_query]
              [] action = "ask_user" ->
                   [a EXCEPT !.analysis_action = "ask_user",
                             !.final_response = <<"Error: ">> \o s.error_msg \o <<". Could you please clarify your question?">>]
              [] OTHER ->
                   [a EXCEPT !.analysis_action = "fail",
                             !.final_response = <<"Unable to process your request: ">> \o s.error_msg]

\* mutant: a failed model call yields a text without the error
error_analyzer_GenericFailure(s, llm) ==
    IF s.error_msg = <<>>
    THEN [s EXCEPT !.analysis_action = "end"]
    ELSE IF CeilingReached(s)
    THEN [s EXCEPT !.analysis_action = "fail",
                   !.final_response = <<"Failed after ", ToString(max_retries), " attempts: ">> \o s.error_msg]
    ELSE IF ~llm.ok
    THEN [s EXCEPT !.analysis_action = "fail",
                   !.final_response = <<"An unexpected error occurred">>]
    ELSE LET parsed == parse_json_response(llm.content)
             action == PyDictGet(parsed, "action", "fail")
             a == [s EXCEPT !.analysis = Txt(PyDictGet(parsed, "analysis", ""))]
         IN CASE action = "retry" ->
                   [a EXCEPT !.analysis_action = "retry",
                             !.sql_query = IF "suggested_sql" \in DOMAIN parsed THEN Txt(parsed["suggested_sql"]) ELSE s.sql_query]
              [] action = "rephrase" -> [a EXCEPT !.analysis_action = "rephrase"]
              [] action = "ask_user" ->
                   [a EXCEPT !.analysis_action = "ask_user",
                             !.final_response = <<"Error: ">> \o s.error_msg \o <<". Could you please clarify your question?">>]
              [] OTHER ->
                   [a EXCEPT !.analysis_action = "fail",
                             !.final_response = <<"Unable to process your request: ">> \o s.error_msg]

error_analyzer(s, llm) ==
    IF s.error_msg = <<>>
    THEN [s EXCEPT !.analysis_action = "end"]
    ELSE IF CeilingReached(s)
    THEN [s EXCEPT !.analysis_action = "fail",
                   !.final_response = <<"Failed after ", ToString(max_retries), " attempts: ">> \o s.error_msg]
    ELSE IF ~llm.ok
    THEN [s EXCEPT !.analysis_action = "fail",
                   !.final_response = <<"An unexpected error occurred: ">> \o s.error_msg]
    ELSE LET parsed == parse_json_response(llm.content)
             action == PyDictGet(parsed, "action", "fail")
             a == [s EXCEPT !.analysis = Txt(PyDictGet(parsed, "analysis", ""))]
         IN CASE action = "retry" ->
                   [a EXCEPT !.analysis_action = "retry",
                             !.sql_query = IF "suggested_sql" \in DOMAIN parsed THEN Txt(parsed["suggested_sql"]) ELSE s.sql_query]
              [] action = "rephrase" -> [a EXCEPT !.analysis_action = "rephrase"]
              [] action = "ask_user" ->
                   [a EXCEPT !.analysis_action = "ask_user",
                             !.final_response = <<"Error: ">> \o s.error_msg \o <<". Could you please clarify your question?">>]
              [] OTHER ->
                   [a EXCEPT !.analysis_action = "fail",
                             !.final_response = <<"Unable to process your request: ">> \o s.error_msg]

\* the delay slept inside error_analyzer (0: no backoff)
BackoffSlept(s, llm) ==
    IF ConsultsModel(s) /\ llm.ok /\ PyDictGet(parse_json_response(llm.content), "action", "fail") = "retry"
    THEN exponential_backoff(s.retry_count)
    ELSE 0

update_history(s) ==
    [s EXCEPT !.messages = Append(s.messages, [user |-> s.user_prompt,
                                               bot |-> PyDictGet(s, "final_response", <<"No response generated">>)])]

----------------------------------------------------------------------------
(* app/factory.py: the edges of the graph; "raised" = the path map has no such key *)

\* mutant: data_query is sent to the general branch
AfterClassify_DataToGeneral(s) ==
    CASE s.intent = "greeting" -> "general"
      [] s.intent = "general" -> "general"
      [] s.intent = "data_query" -> "general"
      [] OTHER -> "raised"

\* mutant: greeting is sent to the data branch
AfterClassify_GreetingToRetrieve(s) ==
    CASE s.intent = "greeting" -> "retrieve"
      [] s.intent = "general" -> "general"
      [] s.intent = "data_query" -> "retrieve"
      [] OTHER -> "raised"

AfterClassify(s) ==
    CASE s.intent = "greeting" -> "general"
      [] s.intent = "general" -> "general"
      [] s.intent = "data_query" -> "retrieve"
      [] OTHER -> "raised"

\* mutant: ask_user loops back instead of ending the turn
AfterErrorAnalyzer_AskLoops(s) ==
    LET key == PyDictGet(s, "analysis_action", "end")
    IN CASE key = "retry" -> "generate_sql"
         [] key = "rephrase" -> "generate_sql"
         [] key = "fail" -> "update_history"
         [] key = "ask_user" -> "generate_sql"
         [] key = "end" -> "update_history"
         [] OTHER -> "raised"

\* mutant: retry goes straight to execute
AfterErrorAnalyzer_RetrySkipsGenerate(s) ==
    LET key == PyDictGet(s, "analysis_action", "end")
    IN CASE key = "retry" -> "execute"
         [] key = "rephrase" -> "generate_sql"
         [] key = "fail" -> "update_history"
         [] key = "ask_user" -> "update_history"
         [] key = "end" -> "update_history"
         [] OTHER -> "raised"

\* mutant: rephrase ends the turn
AfterErrorAnalyzer_RephraseEnds(s) ==
    LET key == PyDictGet(s, "analysis_action", "end")
    IN CASE key = "retry" -> "generate_sql"
         [] key = "rephrase" -> "update_history"
         [] key = "fail" -> "update_history"
         [] key = "ask_user" -> "update_history"
         [] key = "end" -> "update_history"
         [] OTHER -> "raised"

AfterErrorAnalyzer(s) ==
    LET key == PyDictGet(s, "analysis_action", "end")
    IN CASE key = "retry" -> "generate_sql"
         [] key = "rephrase" -> "generate_sql"
         [] key = "fail" -> "update_history"
         [] key = "ask_user" -> "update_history"
         [] key = "end" -> "update_history"
         [] OTHER -> "raised"

----------------------------------------------------------------------------
(* app.py: DataAssistant *)

AsMessages(pairs) == [i \in 1..Len(pairs) |-> [user |-> pairs[i][1], bot |-> pairs[i][2]]]

\* mutant: no fallback to the in-memory history
create_initial_state_NoFallback(user_prompt, user_id, loaded) ==
    LET fromBlob == IF user_id # NoUser /\ use_blob_sessions
                    THEN AsMessages(LastK(loaded, HistoryWindow))
                    ELSE <<>>
        messages == fromBlob
    IN [ user_prompt |-> user_prompt,
         retry_count |-> 0,
         intent |-> "",
         rephrased_prompt |-> <<>>,
         relevant_schemas |-> <<>>,
         sql_query |-> <<>>,
         results |-> <<>>,
         final_response |-> <<>>,
         error_msg |-> <<>>,
         analysis |-> <<>>,
         analysis_action |-> "",
         messages |-> messages ]

\* mutant: the in-memory fallback reads the longest history of any user
create_initial_state_SharedHistory(user_prompt, user_id, loaded) ==
    LET fromBlob == IF user_id # NoUser /\ use_blob_sessions
                    THEN AsMessages(LastK(loaded, HistoryWindow))
                    ELSE <<>>
        messages == IF user_id # NoUser /\ fromBlob = <<>>
                    THEN AsMessages(LastK(user_conversation_histories[CHOOSE u \in DOMAIN user_conversation_histories :
                                 \A v \in DOMAIN user_conversation_histories :
                                     Len(user_conversation_histories[v]) <= Len(user_conversation_histories[u])], HistoryWindow))
                    ELSE fromBlob
    IN [ user_prompt |-> user_prompt,
         retry_count |-> 0,
         intent |-> "",
         rephrased_prompt |-> <<>>,
         relevant_schemas |-> <<>>,
         sql_query |-> <<>>,
         results |-> <<>>,
         final_response |-> <<>>,
         error_msg |-> <<>>,
         analysis |-> <<>>,
         analysis_action |-> "",
         messages |-> messages ]

\* loaded: what session_manager.load_user_conversations returned ([] when the load failed)
create_initial_state(user_prompt, user_id, loaded) ==
    LET fromBlob == IF user_id # NoUser /\ use_blob_sessions
                    THEN AsMessages(LastK(loaded, HistoryWindow))
                    ELSE <<>>
        messages == IF user_id # NoUser /\ fromBlob = <<>>
                    THEN AsMessages(LastK(user_conversation_histories[user_id], HistoryWindow))
                    ELSE fromBlob
    IN [ user_prompt |-> user_prompt,
         retry_count |-> 0,
         intent |-> "",
         rephrased_prompt |-> <<>>,
         relevant_schemas |-> <<>>,
         sql_query |-> <<>>,
         results |-> <<>>,
         final_response |-> <<>>,
         error_msg |-> <<>>,
         analysis |-> <<>>,
         analysis_action |-> "",
         messages |-> messages ]

NoCall == [user_input |-> <<>>, user_id |-> NoUser]

\* self.feedback_and_comments = {} (and no feedback.json in the store)
NoFeedback == [u \in Users |-> <<>>]

\* the threads of the Flask server that serve /query
ThreadIds == {1, 2}

\* a thread that serves no call
IdleRun == [pc |-> "idle", call |-> NoCall, state |-> <<>>, result |-> [pending |-> TRUE]]

NoRuns == [t \in ThreadIds |-> IdleRun]

NoResult == [pending |-> TRUE]

\* no model reply observed
NoReply == [ok |-> FALSE, content |-> <<>>]

NoObs ==
    [ prev |-> "",            \* the node that ran last in this call
      consulted |-> FALSE,    \* the last node invoked the language model
      slept |-> 0,            \* the backoff delay the last node slept
      engine_calls |-> 0,     \* invocations of bq_client.execute_query in this call
      failed_calls |-> 0,     \* those that raised
      last_exec |-> [kind |-> "none", n |-> 0],  \* outcome of the last invocation
      decided |-> {},         \* the actions error_analyzer decided in this call
      reply |-> NoReply,      \* what the model returned to classify_intent, while it is the last node
      load_failed |-> FALSE,  \* session_manager.load_user_conversations failed in this call
      save_failed |-> FALSE,  \* the upload of the history failed in this call
      ran |-> [classify |-> 0, retrieve |-> 0, update_history |-> 0] ]

Init ==
    /\ max_retries \in 0..MaxRetriesCfg
    /\ use_blob_sessions \in BOOLEAN
    /\ user_conversation_histories = [u \in Users |-> <<>>]
    /\ conversation_data_db = <<>>
    /\ blob \in [Users -> {StoredHistory(n) : n \in StoredSizes}]
    /\ ~use_blob_sessions => blob = [u \in Users |-> <<>>]
    /\ call = NoCall
    /\ state = create_initial_state(<<>>, NoUser, <<>>)
    /\ pc = "idle"
    /\ result = NoResult
    /\ obs = NoObs
    /\ feedback_and_comments = NoFeedback
    /\ feedback_blob = NoFeedback
    /\ runs = NoRuns
    /\ heap = <<>>

Cap(n) == IF n >= 2 THEN 2 ELSE n

Observe(node, consulted, slept) ==
    [obs EXCEPT !.prev = node,
                !.consulted = consulted,
                !.slept = slept,
                !.reply = NoReply,
                !.ran = IF node \in DOMAIN obs.ran THEN [obs.ran EXCEPT ![node] = Cap(@ + 1)] ELSE obs.ran]

\* process_query up to self.app.invoke(state)
Begin ==
    /\ pc = "idle"
    /\ \E user_input \in UserPrompts, user_id \in Users \cup {NoUser}, load_ok \in BOOLEAN :
         /\ (user_id = NoUser \/ ~use_blob_sessions) => load_ok
         /\ call' = [user_input |-> user_input, user_id |-> user_id]
         /\ state' = create_initial_state(user_input, user_id, IF user_id # NoUser /\ load_ok THEN blob[user_id] ELSE <<>>)
         /\ obs' = [NoObs EXCEPT !.load_failed = ~load_ok]
    /\ pc' = "classify"
    /\ UNCHANGED <<assistant, feedback, threaded, result>>

Classify ==
    /\ pc = "classify"
    /\ \E llm \in ClassifyReplies :
         LET s2 == classify_intent(state, llm)
         IN /\ state' = s2
            /\ pc' = AfterClassify(s2)
            /\ obs' = [Observe("classify", TRUE, 0) EXCEPT !.reply = llm]
    /\ UNCHANGED <<assistant, feedback, threaded, call, result>>

General ==
    /\ pc = "general"
    /\ \E llm \in GeneralReplies : state' = general_response(state, llm)
    /\ pc' = "update_history"
    /\ obs' = Observe("general", TRUE, 0)
    /\ UNCHANGED <<assistant, feedback, threaded, call, result>>

Retrieve ==
    /\ pc = "retrieve"
    /\ state' = retrieve_schemas(state)
    /\ pc' = "generate_sql"
    /\ obs' = Observe("retrieve", FALSE, 0)
    /\ UNCHANGED <<assistant, feedback, threaded, call, result>>

GenerateSql ==
    /\ pc = "generate_sql"
    /\ \E llm \in SqlReplies : state' = generate_sql(state, llm)
    /\ pc' = "execute"
    /\ obs' = Observe("generate_sql", TRUE, 0)
    /\ UNCHANGED <<assistant, feedback, threaded, call, result>>

Execute ==
    /\ pc = "execute"
    /\ \E outcome \in EngineOutcomes :
         /\ state' = execute_sql(state, outcome)
         /\ obs' = IF InvokesEngine(state)
                   THEN [Observe("execute", FALSE, 0) EXCEPT
                           !.engine_calls = @ + 1,
                           !.failed_calls = IF outcome.kind = "error" THEN @ + 1 ELSE @,
                           !.last_exec = [kind |-> outcome.kind, n |-> Len(outcome.df)]]
                   ELSE Observe("execute", FALSE, 0)
    /\ pc' = "error_analyzer"
    /\ UNCHANGED <<assistant, feedback, threaded, call, result>>

ErrorAnalyzer ==
    /\ pc = "error_analyzer"
    /\ \E llm \in AnalyzerReplies :
         LET s2 == error_analyzer(state, llm)
         IN /\ state' = s2
            /\ pc' = AfterErrorAnalyzer(s2)
            /\ obs' = [Observe("error_analyzer", ConsultsModel(state), BackoffSlept(state, llm)) EXCEPT
                         !.decided = @ \cup {s2.analysis_action}]
    /\ UNCHANGED <<assistant, feedback, threaded, call, result>>

UpdateHistory ==
    /\ pc = "update_history"
    /\ state' = update_history(state)
    /\ pc' = "END"
    /\ obs' = Observe("update_history", FALSE, 0)
    /\ UNCHANGED <<assistant, feedback, threaded, call, result>>

\* process_query after self.app.invoke returned; save_ok: the upload to blob storage succeeded
Finish ==
    /\ pc = "END"
    /\ \E save_ok \in BOOLEAN :
         LET final_response == PyDictGet(state, "final_response", <<"Sorry, I couldn't process your request.">>)
             sql_query == PyDictGet(state, "sql_query", <<"No SQL generated">>)
             user_id == call.user_id
             history == IF user_id # NoUser
                        THEN Append(user_conversation_histories[user_id], <<call.user_input, final_response>>)
                        ELSE <<>>
         IN /\ (user_id = NoUser \/ ~use_blob_sessions) => save_ok
            /\ conversation_data_db' = Append(conversation_data_db,
                   [user_query |-> call.user_input, sql_query |-> sql_query, response |-> final_response])
            /\ user_conversation_histories' =
                   IF user_id # NoUser
                   THEN [user_conversation_histories EXCEPT ![user_id] = history]
                   ELSE user_conversation_histories
            /\ blob' = IF user_id # NoUser /\ use_blob_sessions /\ save_ok
                       THEN [blob EXCEPT ![user_id] = history]
                       ELSE blob
            /\ result' = [ user_input |-> call.user_input,
                           generated_sql_query |-> sql_query,
                           model_response |-> final_response,
                           intent |-> PyDictGet(state, "intent", "unknown"),
                           success |-> TRUE ]
            /\ obs' = [obs EXCEPT !.save_failed = ~save_ok]
    /\ pc' = "returned"
    /\ UNCHANGED <<max_retries, use_blob_sessions, feedback, threaded, call, state>>

\* mutant: the failed turn is appended to the history of the user
Except_RecordsExchange ==
    /\ pc = "raised"
    /\ conversation_data_db' = Append(conversation_data_db,
           [ user_query |-> call.user_input,
             sql_query |-> <<"Error occurred">>,
             response |-> <<"I encountered an error while processing your request. Please try again.">> ])
    /\ result' = [ user_input |-> call.user_input,
                   generated_sql_query |-> <<"Error occurred">>,
                   model_response |-> <<"I encountered an error while processing your request. Please try again.">>,
                   success |-> FALSE,
                   error |-> <<"'">> \o Txt(IF obs.prev = "classify" THEN state.intent ELSE state.analysis_action) \o <<"'">> ]
    /\ pc' = "returned"
    /\ user_conversation_histories' =
           IF call.user_id # NoUser
           THEN [user_conversation_histories EXCEPT ![call.user_id] = Append(@, <<call.user_input, state.final_response>>)]
           ELSE user_conversation_histories
    /\ UNCHANGED <<max_retries, use_blob_sessions, blob, feedback, threaded, call, state, obs>>

\* process_query when self.app.invoke raised (no edge for the routing key)
Except ==
    /\ pc = "raised"
    /\ conversation_data_db' = Append(conversation_data_db,
           [ user_query |-> call.user_input,
             sql_query |-> <<"Error occurred">>,
             response |-> <<"I encountered an error while processing your request. Please try again.">> ])
    /\ result' = [ user_input |-> call.user_input,
                   generated_sql_query |-> <<"Error occurred">>,
                   model_response |-> <<"I encountered an error while processing your request. Please try again.">>,
                   success |-> FALSE,
                   error |-> <<"'">> \o Txt(IF obs.prev = "classify" THEN state.intent ELSE state.analysis_action) \o <<"'">> ]
    /\ pc' = "returned"
    /\ UNCHANGED <<max_retries, use_blob_sessions, user_conversation_histories, blob, feedback, threaded, call, state, obs>>

\* one step of the compiled graph
Workflow == Classify \/ General \/ Retrieve \/ GenerateSql \/ Execute \/ ErrorAnalyzer \/ UpdateHistory

Next == Begin \/ Classify \/ General \/ Retrieve \/ GenerateSql \/ Execute \/ ErrorAnalyzer \/ UpdateHistory \/ Finish \/ Except

Spec == Init /\ [][Next]_vars

\* the graph runs node after node on one thread: an enabled step is taken
FairSpec == Spec /\ WF_vars(Workflow) /\ WF_vars(Finish \/ Except)

\* the assistant configured with MAX_RETRIES = MaxBackoffRetries and no blob sessions
RetryInit ==
    /\ max_retries = MaxBackoffRetries
    /\ use_blob_sessions = FALSE
    /\ user_conversation_histories = [u \in Users |-> <<>>]
    /\ conversation_data_db = <<>>
    /\ blob = [u \in Users |-> <<>>]
    /\ call = NoCall
    /\ state = create_initial_state(<<>>, NoUser, <<>>)
    /\ pc = "idle"
    /\ result = NoResult
    /\ obs = NoObs
    /\ feedback_and_comments = NoFeedback
    /\ feedback_blob = NoFeedback
    /\ runs = NoRuns
    /\ heap = <<>>

RetrySpec == RetryInit /\ [][Next]_vars

----------------------------------------------------------------------------
(* Calls one after the other on one assistant, each through the whole graph *)

\* the caller has its answer and calls process_query again
NextCall ==
    /\ pc = "returned"
    /\ Len(conversation_data_db) < MaxCalls
    /\ pc' = "idle"
    /\ UNCHANGED <<assistant, feedback, threaded, call, state, result, obs>>

CallsInit ==
    /\ Init
    /\ max_retries = MaxRetriesCfg - 1
    /\ ~use_blob_sessions

\* the calls ask one data question
CallsBegin ==
    /\ Begin
    /\ call'.user_input = <<"Show me incidents from 2024">>

\* the Run States of these calls: the question is classified data_query, the
\* model writes "SELECT 1" or nothing, the engine returns one row or rejects the query
CallsRunState(s) ==
    /\ s.intent = "data_query"
    /\ s.rephrased_prompt = <<"incidents opened in 2024">>
    /\ s.sql_query \in {<<>>, <<"SELECT 1">>}
    /\ s.error_msg \in {<<>>, <<"No SQL query to execute">>, <<"Invalid SQL: ", "400 Unrecognized name">>}
    /\ s.results \in {<<>>, RenderResults(Rows(1))}

CallsStep == Workflow /\ CallsRunState(state')

CallsNext == CallsBegin \/ CallsStep \/ Finish \/ NextCall

CallsSpec == CallsInit /\ [][CallsNext]_vars

----------------------------------------------------------------------------
(* generate_sql on every short model reply *)

ReplyTokens == {" ", "\n", FenceSql, Fence, "SELECT 1", "Here it is:"}

\* the texts of at most MaxReplyLen tokens
ModelReplies == UNION {[1..n -> ReplyTokens] : n \in 0..MaxReplyLen}

\* the graph up to generate_sql, for the data question of CallsBegin
CleanStep ==
    /\ Classify \/ Retrieve
    /\ state'.intent = "data_query"
    /\ state'.rephrased_prompt = <<"incidents opened in 2024">>

\* generate_sql on a reply of the model
CleanGenerate ==
    /\ pc = "generate_sql"
    /\ \E reply \in ModelReplies :
         /\ state' = generate_sql(state, LlmOk(reply))
         /\ obs' = [Observe("generate_sql", TRUE, 0) EXCEPT !.reply = LlmOk(reply)]
    /\ pc' = "execute"
    /\ UNCHANGED <<assistant, feedback, threaded, call, result>>

CleanNext == CallsBegin \/ CleanStep \/ CleanGenerate

CleanSpec == CallsInit /\ [][CleanNext]_vars

----------------------------------------------------------------------------
(* The data branch with the analyzer's model reply on record *)

\* further replies of the model to the error-analysis prompt
MoreAnalyzerReplies ==
    { LlmOk(<<"{", "analysis", "unknown column", "action", "rephrase", "suggested_sql", "SELECT 4", "}">>),
      LlmOk(<<"{", "action", "ask_user", "suggested_sql", "SELECT 4", "}">>),
      LlmOk(<<"{", "action", "retry", "suggested_sql", "", "}">>),
      LlmOk(<<"{", "action", "end", "}">>),
      LlmOk(<<"{", "action", "retry", "suggested_sql", "}">>) }

\* the graph from classify to execute, for the data question of CallsBegin
AnalyzerFront ==
    /\ Classify \/ Retrieve \/ GenerateSql \/ Execute
    /\ state'.intent = "data_query"
    /\ state'.rephrased_prompt = <<"incidents opened in 2024">>

\* error_analyzer; the reply is on record when the model was asked
Analyze ==
    /\ pc = "error_analyzer"
    /\ \E llm \in AnalyzerReplies \cup MoreAnalyzerReplies :
         LET s2 == error_analyzer(state, llm)
         IN /\ state' = s2
            /\ pc' = AfterErrorAnalyzer(s2)
            /\ obs' = [Observe("error_analyzer", ConsultsModel(state), BackoffSlept(state, llm)) EXCEPT
                         !.decided = @ \cup {s2.analysis_action},
                         !.reply = IF ConsultsModel(state) THEN llm ELSE NoReply]
    /\ UNCHANGED <<assistant, feedback, threaded, call, result>>

AnalyzerNext == CallsBegin \/ AnalyzerFront \/ Analyze \/ UpdateHistory \/ Finish

AnalyzerSpec == RetryInit /\ [][AnalyzerNext]_vars

----------------------------------------------------------------------------
(* The data branch with the replies to generate_sql and error_analyzer on record *)

\* the graph around generate_sql, for the data question of CallsBegin
RegenFront ==
    /\ Classify \/ Retrieve \/ Execute
    /\ state'.intent = "data_query"
    /\ state'.rephrased_prompt = <<"incidents opened in 2024">>

\* generate_sql; the model's reply, or its failure, is on record
RegenGenerate ==
    /\ pc = "generate_sql"
    /\ \E llm \in SqlReplies :
         /\ state' = generate_sql(state, llm)
         /\ obs' = [Observe("generate_sql", TRUE, 0) EXCEPT !.reply = llm]
    /\ pc' = "execute"
    /\ UNCHANGED <<assistant, feedback, threaded, call, result>>

RegenNext == CallsBegin \/ RegenFront \/ RegenGenerate \/ Analyze \/ UpdateHistory \/ Finish

RegenSpec == CallsInit /\ [][RegenNext]_vars

----------------------------------------------------------------------------
(* Calls of two users and of callers without user id, one after the other *)

TwoUsers == {"u1", "u2"}

\* each caller asks questions of its own, so that a pair shows whose it is
OwnPrompt(user_id, n) == <<"question " \o ToString(n) \o " of " \o user_id>>

OwnStored(user_id, n) ==
    [i \in 1..n |-> <<<<"stored question " \o ToString(i) \o " of " \o user_id>>, <<"a" \o ToString(i)>>>>]

UsersInit ==
    /\ max_retries = MaxRetriesCfg
    /\ use_blob_sessions \in BOOLEAN
    /\ user_conversation_histories = [u \in TwoUsers |-> <<>>]
    /\ conversation_data_db = <<>>
    /\ blob \in {[u \in TwoUsers |-> OwnStored(u, n[u])] : n \in [TwoUsers -> {0, HistoryWindow - 1}]}
    /\ ~use_blob_sessions => blob = [u \in TwoUsers |-> <<>>]
    /\ call = NoCall
    /\ state = create_initial_state(<<>>, NoUser, <<>>)
    /\ pc = "idle"
    /\ result = NoResult
    /\ obs = NoObs
    /\ feedback_and_comments = NoFeedback
    /\ feedback_blob = NoFeedback
    /\ runs = NoRuns
    /\ heap = <<>>

\* the next call of process_query, up to self.app.invoke(state)
UsersBegin ==
    /\ pc \in {"idle", "returned"}
    /\ Len(conversation_data_db) < MaxCalls
    /\ \E user_id \in TwoUsers \cup {NoUser}, load_ok \in BOOLEAN :
         LET user_input == OwnPrompt(user_id, Len(conversation_data_db) + 1)
         IN /\ (user_id = NoUser \/ ~use_blob_sessions) => load_ok
            /\ call' = [user_input |-> user_input, user_id |-> user_id]
            /\ state' = create_initial_state(user_input, user_id,
                                             IF user_id # NoUser /\ load_ok THEN blob[user_id] ELSE <<>>)
            /\ obs' = [NoObs EXCEPT !.load_failed = ~load_ok]
    /\ pc' = "classify"
    /\ result' = NoResult
    /\ UNCHANGED <<assistant, feedback, threaded>>

\* the graph's steps of a call classified general, or given an intent label
\* the graph has no edge for
UsersStep ==
    /\ Workflow
    /\ state'.intent \in {"general", "smalltalk"}
    /\ state'.rephrased_prompt = state'.user_prompt

UsersNext == UsersBegin \/ UsersStep \/ Finish \/ Except

UsersSpec == UsersInit /\ [][UsersNext]_vars

----------------------------------------------------------------------------
(* parse_json_response on every short model reply *)

ParseTokens == {"{", "}", "intent", "greeting", "Sure:", " "}

\* the braces of a reply, in order
Braces(reply) == SelectSeq(reply, LAMBDA tok : tok \in {"{", "}"})

\* replies without an object inside an object (values are single tokens here)
ParseReplies ==
    { reply \in UNION {[1..n -> ParseTokens] : n \in 0..MaxReplyLen} :
        \A i \in 1..(Len(Braces(reply)) - 1) : ~(Braces(reply)[i] = "{" /\ Braces(reply)[i + 1] = "{") }

ParseInit ==
    /\ Init
    /\ ~use_blob_sessions
    /\ max_retries = MaxRetriesCfg

\* the model's reply arrives
ParseReply ==
    /\ pc = "idle"
    /\ obs.prev = ""
    /\ \E reply \in ParseReplies : obs' = [obs EXCEPT !.prev = "llm", !.reply = LlmOk(reply)]
    /\ UNCHANGED <<assistant, feedback, threaded, call, state, pc, result>>

\* parse_json_response(response); its return value is kept in result
ParseStep ==
    /\ pc = "idle"
    /\ obs.prev = "llm"
    /\ result' = parse_json_response(obs.reply.content)
    /\ obs' = [obs EXCEPT !.prev = "parse_json_response"]
    /\ UNCHANGED <<assistant, feedback, threaded, call, state, pc>>

ParseNext == ParseReply \/ ParseStep

ParseSpec == ParseInit /\ [][ParseNext]_vars

----------------------------------------------------------------------------
(* A session: one user's calls of process_query, one after the other *)

\* the question of the n-th call of the session
SessionPrompt(n) == <<"question " \o ToString(n)>>

\* the model's answer to each of them
SessionAnswer == <<"Hello! How can I help?">>

SessionInit == Init /\ max_retries = MaxRetriesCfg

\* the next call of process_query, up to self.app.invoke(state)
SessionBegin ==
    /\ pc \in {"idle", "returned"}
    /\ Len(conversation_data_db) < MaxTurns
    /\ \E user_id \in Users, load_ok \in BOOLEAN :
         /\ ~use_blob_sessions => load_ok
         /\ call' = [user_input |-> SessionPrompt(Len(conversation_data_db) + 1), user_id |-> user_id]
         /\ state' = create_initial_state(SessionPrompt(Len(conversation_data_db) + 1), user_id,
                                          IF load_ok THEN blob[user_id] ELSE <<>>)
         /\ obs' = [NoObs EXCEPT !.load_failed = ~load_ok]
    /\ pc' = "classify"
    /\ result' = NoResult
    /\ UNCHANGED <<assistant, feedback, threaded>>

\* the graph's steps of a call classified general and answered with SessionAnswer
SessionStep ==
    /\ Workflow
    /\ state'.intent = "general"
    /\ state'.rephrased_prompt = state'.user_prompt
    /\ pc = "general" => state'.final_response = SessionAnswer

SessionNext == SessionBegin \/ SessionStep \/ Finish

SessionSpec == SessionInit /\ [][SessionNext]_vars

----------------------------------------------------------------------------
(* Feedback: record_feedback, record_comment and the /feedback endpoint *)

\* a missing or empty argument (None or ""): falsy
Absent == <<>>

FeedbackQueries == {<<"Show me incidents from 2024">>, <<"Hi there!">>}

FeedbackTypes == {<<"like">>, <<"dislike">>, Absent}

Comments == {<<"wrong year">>, Absent}

NoFeedbackText == <<"user did not provide feedback like or dislike">>

NoCommentText == <<"user did not provide comments">>

\* entries: self.feedback_and_comments[user_id] (created empty when absent)
record_feedback(entries, user_query, feedback_type) ==
    Append(entries, [ query |-> user_query,
                      feedback |-> IF feedback_type # Absent THEN feedback_type ELSE NoFeedbackText,
                      comments |-> NoCommentText ])

\* mutant: every entry with the query text gets the comment
record_comment_UpdatesAll(entries, user_query, comment) ==
    LET text == IF comment # Absent THEN comment ELSE NoCommentText
        hits == {i \in 1..Len(entries) : entries[i].query = user_query}
    IN IF hits # {}
       THEN [i \in 1..Len(entries) |-> IF i \in hits THEN [entries[i] EXCEPT !.comments = text] ELSE entries[i]]
       ELSE Append(entries, [query |-> user_query, feedback |-> NoFeedbackText, comments |-> text])

record_comment(entries, user_query, comment) ==
    LET text == IF comment # Absent THEN comment ELSE NoCommentText
        hits == {i \in 1..Len(entries) : entries[i].query = user_query}
    IN IF hits # {}
       THEN LET first == CHOOSE i \in hits : \A j \in hits : i <= j
            IN [entries EXCEPT ![first].comments = text]
       ELSE Append(entries, [query |-> user_query, feedback |-> NoFeedbackText, comments |-> text])

\* the save to blob storage that ends both methods; save_ok: the upload succeeded
SaveFeedback(stored, user_id, entries, save_ok) ==
    IF use_blob_sessions /\ save_ok
    THEN [stored EXCEPT ![user_id] = entries]
    ELSE stored

FeedbackInit ==
    /\ Init
    /\ max_retries = MaxRetriesCfg
    /\ blob = [u \in Users |-> <<>>]

RecordFeedback ==
    \E user_id \in Users, user_query \in FeedbackQueries, feedback_type \in FeedbackTypes, save_ok \in BOOLEAN :
        LET entries == record_feedback(feedback_and_comments[user_id], user_query, feedback_type)
        IN /\ Len(feedback_and_comments[user_id]) < MaxFeedbackEntries
           /\ ~use_blob_sessions => save_ok
           /\ feedback_and_comments' = [feedback_and_comments EXCEPT ![user_id] = entries]
           /\ feedback_blob' = SaveFeedback(feedback_blob, user_id, entries, save_ok)
           /\ UNCHANGED <<assistant, threaded, call, state, pc, result, obs>>

RecordComment ==
    \E user_id \in Users, user_query \in FeedbackQueries, comment \in Comments, save_ok \in BOOLEAN :
        LET entries == record_comment(feedback_and_comments[user_id], user_query, comment)
        IN /\ Len(feedback_and_comments[user_id]) < MaxFeedbackEntries
           /\ ~use_blob_sessions => save_ok
           /\ feedback_and_comments' = [feedback_and_comments EXCEPT ![user_id] = entries]
           /\ feedback_blob' = SaveFeedback(feedback_blob, user_id, entries, save_ok)
           /\ UNCHANGED <<assistant, threaded, call, state, pc, result, obs>>

\* POST /feedback: record_feedback when a feedback type is given, then
\* record_comment when comments are given
PostFeedback ==
    \E user_id \in Users, user_query \in FeedbackQueries, feedback_type \in FeedbackTypes,
       comments \in Comments, save_ok \in BOOLEAN \X BOOLEAN :
        LET e0 == feedback_and_comments[user_id]
            e1 == IF feedback_type # Absent THEN record_feedback(e0, user_query, feedback_type) ELSE e0
            e2 == IF comments # Absent THEN record_comment(e1, user_query, comments) ELSE e1
            b1 == IF feedback_type # Absent THEN SaveFeedback(feedback_blob, user_id, e1, save_ok[1]) ELSE feedback_blob
            b2 == IF comments # Absent THEN SaveFeedback(b1, user_id, e2, save_ok[2]) ELSE b1
        IN /\ Len(e0) < MaxFeedbackEntries
           /\ (~use_blob_sessions \/ feedback_type = Absent) => save_ok[1]
           /\ (~use_blob_sessions \/ comments = Absent) => save_ok[2]
           /\ feedback_and_comments' = [feedback_and_comments EXCEPT ![user_id] = e2]
           /\ feedback_blob' = b2
           /\ UNCHANGED <<assistant, threaded, call, state, pc, result, obs>>

FeedbackNext == RecordFeedback \/ RecordComment \/ PostFeedback

FeedbackSpec == FeedbackInit /\ [][FeedbackNext]_vars

----------------------------------------------------------------------------
(* The threaded server: two calls of process_query served at the same time. *)
(* The Run State of a call is the dict create_initial_state returns; its    *)
(* messages entry refers to a list object, which update_history appends to  *)
(* in place.  heap holds the list objects; messages holds an address.       *)

ConcPrompts == {<<"Hi there!">>, <<"Show me incidents from 2024">>}

ConcClassifyReplies ==
    { LlmOk(<<"{", "intent", "greeting", "}">>),
      LlmOk(<<"{", "intent", "data_query", "rephrased", "incidents opened in 2024", "}">>) }

ConcGeneralReplies == {LlmOk(<<"Hello! How can I help?">>)}

ConcSqlReplies == {LlmOk(<<"SELECT 1">>)}

ConcEngineOutcomes ==
    { [kind |-> "df", df |-> Rows(1), msg |-> <<>>],
      [kind |-> "error", df |-> <<>>, msg |-> <<"Invalid SQL: ", "400 Unrecognized name">>] }

ConcAnalyzerReplies ==
    { LlmOk(<<"{", "analysis", "unknown column", "action", "retry", "suggested_sql", "SELECT 3", "}">>),
      LlmOk(<<"{", "analysis", "unknown column", "action", "fail", "}">>) }

\* mutant: the calls share one list object
NewList_Shared(h) == 1

\* the address of the list object a list display or comprehension creates: a new one
NewList(h) == Len(h) + 1

\* the Run State of thread t, with the list its messages entry refers to
RunState(t) == [runs[t].state EXCEPT !.messages = heap[runs[t].state.messages]]

\* the Run States a node can return, each with the node the graph runs next
NodeOutcomes(node, s) ==
    CASE node = "classify" ->
           {<<classify_intent(s, llm), AfterClassify(classify_intent(s, llm))>> : llm \in ConcClassifyReplies}
      [] node = "general" -> {<<general_response(s, llm), "update_history">> : llm \in ConcGeneralReplies}
      [] node = "retrieve" -> {<<retrieve_schemas(s), "generate_sql">>}
      [] node = "generate_sql" -> {<<generate_sql(s, llm), "execute">> : llm \in ConcSqlReplies}
      [] node = "execute" -> {<<execute_sql(s, outcome), "error_analyzer">> : outcome \in ConcEngineOutcomes}
      [] node = "error_analyzer" ->
           {<<error_analyzer(s, llm), AfterErrorAnalyzer(error_analyzer(s, llm))>> : llm \in ConcAnalyzerReplies}
      [] node = "update_history" -> {<<update_history(s), "END">>}
      [] OTHER -> {}

ConcInit ==
    /\ Init
    /\ max_retries = MaxRetriesCfg - 1
    /\ ~use_blob_sessions

\* thread t: process_query up to self.app.invoke(state)
ConcBegin(t) ==
    /\ runs[t].pc = "idle"
    /\ \E user_input \in ConcPrompts, user_id \in Users \cup {NoUser} :
         LET s0 == create_initial_state(user_input, user_id, <<>>)
             a == NewList(heap)
         IN /\ heap' = IF a \in 1..Len(heap) THEN [heap EXCEPT ![a] = s0.messages] ELSE Append(heap, s0.messages)
            /\ runs' = [runs EXCEPT ![t] = [ pc |-> "classify",
                                             call |-> [user_input |-> user_input, user_id |-> user_id],
                                             state |-> [s0 EXCEPT !.messages = a],
                                             result |-> [pending |-> TRUE] ]]
    /\ UNCHANGED <<assistant, feedback, call, state, pc, result, obs>>

\* thread t: the graph runs its next node on the Run State of the call
ConcStep(t) ==
    /\ \E o \in NodeOutcomes(runs[t].pc, RunState(t)) :
         /\ heap' = [heap EXCEPT ![runs[t].state.messages] = o[1].messages]
         /\ runs' = [runs EXCEPT ![t].pc = o[2],
                                 ![t].state = [o[1] EXCEPT !.messages = runs[t].state.messages]]
    /\ UNCHANGED <<assistant, feedback, call, state, pc, result, obs>>

\* thread t: process_query after self.app.invoke returned (no blob sessions)
ConcFinish(t) ==
    /\ runs[t].pc = "END"
    /\ LET s == RunState(t)
           c == runs[t].call
       IN /\ conversation_data_db' = Append(conversation_data_db,
                 [user_query |-> c.user_input, sql_query |-> s.sql_query, response |-> s.final_response])
          /\ user_conversation_histories' =
                 IF c.user_id # NoUser
                 THEN [user_conversation_histories EXCEPT ![c.user_id] = Append(@, <<c.user_input, s.final_response>>)]
                 ELSE user_conversation_histories
          /\ runs' = [runs EXCEPT ![t].pc = "returned",
                                  ![t].result = [ user_input |-> c.user_input,
                                                  generated_sql_query |-> s.sql_query,
                                                  model_response |-> s.final_response,
                                                  intent |-> s.intent,
                                                  success |-> TRUE ]]
    /\ UNCHANGED <<max_retries, use_blob_sessions, blob, feedback, heap, call, state, pc, result, obs>>

ConcNext == \E t \in ThreadIds : ConcBegin(t) \/ ConcStep(t) \/ ConcFinish(t)

ConcSpec == ConcInit /\ [][ConcNext]_vars

----------------------------------------------------------------------------
(* Claims *)

\* C1: whenever process_query has returned, the model_response it returned is
\* non-empty (and it always returns: no exception leaves the call).
C1_ResponseNonEmpty == pc = "returned" => result.model_response # <<>>

\* C2: every turn that enters the loop generate_sql -> execute -> error_analyzer
\* leaves it after finitely many iterations and reaches update_history.
C2_LoopTerminates == (pc = "generate_sql") ~> (pc = "update_history")

\* C3: when error_analyzer runs after max_retries failed executions (so on an error, with
\* retry_count at the ceiling), it decides fail without consulting the model and without
\* backoff, the final_response reports max_retries and the last error_msg, and
\* update_history follows: no model reply can turn this into retry, rephrase or ask_user.
C3_CeilingForcesFail ==
    [][ ( /\ pc = "error_analyzer"
          /\ \/ max_retries >= 1 /\ obs.failed_calls >= max_retries
             \/ state.error_msg # <<>> /\ state.retry_count >= max_retries )
        => /\ state.error_msg # <<>>
           /\ state'.analysis_action = "fail"
           /\ state'.final_response = <<"Failed after ", ToString(max_retries), " attempts: ">> \o state.error_msg
           /\ state'.error_msg = state.error_msg
           /\ ~obs'.consulted
           /\ obs'.slept = 0
           /\ pc' = "update_history" ]_vars

C3_Witness ==
    /\ pc = "update_history"
    /\ obs.prev = "error_analyzer"
    /\ max_retries = 3
    /\ obs.failed_calls = max_retries
    /\ state.retry_count = max_retries
    /\ state.analysis_action = "fail"
    /\ ~obs.consulted

\* C4: with max_retries >= 1, retry_count never exceeds max_retries and the query
\* engine is invoked at most max_retries times in a call, whatever error_analyzer decided.
C4_SharedBudget ==
    max_retries >= 1 => /\ state.retry_count <= max_retries
                        /\ obs.engine_calls <= max_retries

C4_Witness ==
    /\ max_retries = 3
    /\ obs.engine_calls = max_retries
    /\ state.retry_count = max_retries
    /\ obs.decided = {"retry", "rephrase", "fail"}

\* C5: the step after classify is general when intent is greeting or general and
\* retrieve when intent is data_query; nothing else follows classify.
C5_ClassifyRouting ==
    [][ pc = "classify"
        => /\ state'.intent \in {"greeting", "general"} => pc' = "general"
           /\ state'.intent = "data_query" => pc' = "retrieve"
           /\ pc' \in {"general", "retrieve", "raised"}
           /\ pc' = "raised" => state'.intent \notin {"greeting", "general", "data_query"} ]_vars

C5_Witness == obs.prev = "classify" /\ pc = "retrieve" /\ state.intent = "data_query"

\* C6: the step after error_analyzer is generate_sql exactly when analysis_action is
\* retry or rephrase, and update_history exactly when it is fail, ask_user or end.
C6_AnalyzerRouting ==
    [][ pc = "error_analyzer"
        => /\ pc' = "generate_sql" <=> state'.analysis_action \in {"retry", "rephrase"}
           /\ pc' = "update_history" <=> state'.analysis_action \in {"fail", "ask_user", "end"}
           /\ pc' \in {"generate_sql", "update_history"} ]_vars

C6_Witness == obs.prev = "error_analyzer" /\ pc = "generate_sql" /\ state.analysis_action = "rephrase"

\* C7: in every call the steps run in the order of the graph: classify is the first
\* step and runs once; retrieve runs at most once and only after classify; every execute
\* comes right after generate_sql and right before error_analyzer; update_history runs
\* exactly once and is the last step before the call returns.
C7_GraphOrder ==
    [][ /\ pc = "classify" => obs.prev = "" /\ obs.ran.classify = 0
        /\ (obs.prev = "" /\ pc \notin {"idle", "returned"}) => pc = "classify"
        /\ pc = "retrieve" => obs.ran.retrieve = 0 /\ obs.ran.classify = 1
        /\ pc = "execute" => obs.prev = "generate_sql" /\ pc' = "error_analyzer"
        /\ pc = "update_history" => obs.ran.update_history = 0 /\ pc' = "END"
        /\ pc' = "returned" => obs.ran.update_history = 1 /\ obs.prev = "update_history" ]_vars

\* C8: a call routed to the general branch keeps sql_query, error_msg, results and
\* analysis_action empty and retry_count 0 to its end, never invokes the query engine,
\* and returns an empty generated SQL.
C8_GeneralBranchFrame ==
    (state.intent \in {"greeting", "general"} /\ pc \in {"general", "update_history", "END", "returned"})
    => /\ state.sql_query = <<>>
       /\ state.error_msg = <<>>
       /\ state.retry_count = 0
       /\ state.analysis_action = ""
       /\ state.results = <<>>
       /\ obs.engine_calls = 0
       /\ pc = "returned" => result.generated_sql_query = <<>>

C8_Witness ==
    /\ pc = "returned"
    /\ call.user_input = <<"Hi there!">>
    /\ state.intent = "greeting"
    /\ obs.prev = "update_history"
    /\ result.success

\* the last invocation of the query engine in this call returned at least one row
SucceededWithRows == obs.last_exec.kind = "df" /\ obs.last_exec.n >= 1

\* C9: once the query engine has returned rows, the call ends with intent data_query,
\* a non-empty sql_query, an empty error_msg and a final_response that begins with
\* "Results for '<the input of the call>':", also after earlier failed attempts.
C9_SuccessResponse ==
    (SucceededWithRows /\ pc \in {"error_analyzer", "update_history", "END", "returned"})
    => /\ state.intent = "data_query"
       /\ state.sql_query # <<>>
       /\ state.error_msg = <<>>
       /\ IsPrefix(<<"Results for '">> \o call.user_input \o <<"':">>, state.final_response)
       /\ pc = "returned" => /\ result.model_response = state.final_response
                             /\ result.intent = "data_query"
                             /\ result.generated_sql_query = state.sql_query

C9_Witness ==
    /\ pc = "returned"
    /\ SucceededWithRows
    /\ state.retry_count >= 1
    /\ state.rephrased_prompt # call.user_input
    /\ call.user_input = <<"Show me incidents from 2024">>

RowTokens == {"row" \o ToString(i) : i \in 1..MaxRows}

IsRowToken(t) == t \in RowTokens

IsNoteToken(t) == t = "\n\n(Showing first 100 rows of "

\* the rows a rendered result displays
DisplayedRows(text) == SelectSeq(text, IsRowToken)

\* C10: a successful execution returning n >= 1 rows displays exactly the first 100 rows
\* followed by the note "first 100 rows of n total" when n > 100, and all n rows with
\* no note when n <= 100; final_response ends with that rendering.
C10_Truncation ==
    SucceededWithRows
    => LET n == obs.last_exec.n
       IN /\ IsSuffix(state.results, state.final_response)
          /\ IF n > 100
             THEN /\ DisplayedRows(state.results) = SubSeq(Rows(n), 1, 100)
                  /\ IsSuffix(<<"\n\n(Showing first 100 rows of ", ToString(n), " total)">>, state.results)
                  /\ Len(SelectSeq(state.results, IsNoteToken)) = 1
             ELSE /\ DisplayedRows(state.results) = Rows(n)
                  /\ SelectSeq(state.results, IsNoteToken) = <<>>

C10_Witness ==
    /\ obs.prev = "execute"
    /\ obs.last_exec = [kind |-> "df", n |-> MaxRows]
    /\ Len(DisplayedRows(state.final_response)) = 100

NoDataText == <<"No data found matching your query.">>

EmptyOutcome(o) == o.engine_calls > 0 /\ o.last_exec.kind # "error" /\ o.last_exec.n = 0

\* C11: when the engine is invoked and returns a table of zero rows or no
\* table, execute_sql sets final_response to exactly "No data found matching
\* your query.", leaves error_msg empty and retry_count as it was, and the
\* next step is error_analyzer, which decides end, keeps the response and
\* hands over to update_history.
C11_NoData ==
    [][ /\ (pc = "execute" /\ obs'.engine_calls = obs.engine_calls + 1 /\ EmptyOutcome(obs'))
           => /\ state'.final_response = NoDataText
              /\ state'.error_msg = <<>>
              /\ state'.retry_count = state.retry_count
              /\ pc' = "error_analyzer"
        /\ (pc = "error_analyzer" /\ obs.prev = "execute" /\ EmptyOutcome(obs))
           => /\ state'.analysis_action = "end"
              /\ state'.final_response = NoDataText
              /\ state'.error_msg = <<>>
              /\ state'.retry_count = state.retry_count
              /\ ~obs'.consulted
              /\ pc' = "update_history" ]_vars

\* an empty table after one failed attempt has been analysed as end
C11_Witness ==
    /\ pc = "update_history" /\ obs.prev = "error_analyzer"
    /\ EmptyOutcome(obs) /\ obs.last_exec.kind = "df"
    /\ state.retry_count = 1
    /\ state.analysis_action = "end"
    /\ state.final_response = NoDataText

BackoffTable(n) ==
    CASE n = 0 -> 1
      [] n = 1 -> 2
      [] n = 2 -> 4
      [] n = 3 -> 8
      [] n = 4 -> 16
      [] OTHER -> 16

\* C12: whenever error_analyzer decides retry, the delay it sleeps is
\* min(2^retry_count, 16) of the retry_count it read: 1, 2, 4, 8, 16 for
\* 0, 1, 2, 3, 4 and 16 for every larger count.
C12_BackoffDelay ==
    [][ (pc = "error_analyzer" /\ state'.analysis_action = "retry")
           => obs'.slept = BackoffTable(state.retry_count) ]_vars

\* a retry decided at retry_count = 5 slept the capped delay
C12_Witness ==
    /\ obs.prev = "error_analyzer" /\ state.analysis_action = "retry"
    /\ state.retry_count > 4
    /\ obs.slept = 16

\* msgs are the last (at most 3) pairs of store, in stored order
IsLastWindow(msgs, store) ==
    /\ Len(msgs) = (IF Len(store) < 3 THEN Len(store) ELSE 3)
    /\ \A i \in 1..Len(msgs) :
          LET pair == store[Len(store) - Len(msgs) + i]
          IN msgs[i] = [user |-> pair[1], bot |-> pair[2]]

\* the store create_initial_state took the window of the call from: the
\* persistent history when it was loaded and is not empty, else the in-memory one
WindowStore ==
    IF use_blob_sessions /\ ~obs.load_failed /\ blob[call.user_id] # <<>>
    THEN blob[call.user_id]
    ELSE user_conversation_histories[call.user_id]

\* C13: at the start of a turn of a user, whatever the length of the stored
\* history, messages holds at most 3 pairs and they are the last 3 pairs of
\* the store they were loaded from (persistent or in-memory), in stored order.
C13_HistoryWindow ==
    (pc = "classify" /\ call.user_id # NoUser)
        => /\ Len(state.messages) <= 3
           /\ IsLastWindow(state.messages, WindowStore)

\* a turn that starts with the last 3 of 5 pairs kept in memory only
C13_Witness ==
    /\ pc = "classify" /\ call.user_id # NoUser
    /\ ~use_blob_sessions
    /\ Len(user_conversation_histories[call.user_id]) = 5
    /\ Len(state.messages) = 3
    /\ state.messages[1].user = SessionPrompt(3)

\* C14: after any sequence of record_feedback and record_comment calls (and
\* feedback requests), the feedback record of a user holds at most one entry
\* per query text: recording again for the same query updates the entry.
C14_OneEntryPerQuery ==
    \A u \in Users :
        \A i, j \in 1..Len(feedback_and_comments[u]) :
            feedback_and_comments[u][i].query = feedback_and_comments[u][j].query => i = j

\* C15: every result process_query returns, on the normal path and on the
\* failure path, carries the final response (model_response), the SQL query
\* (generated_sql_query) and the intent.
C15_ResultFields ==
    pc = "returned" => {"model_response", "generated_sql_query", "intent"} \subseteq DOMAIN result

\* C16: a failure of the history store never aborts a turn.  When the load
\* of the user's history fails, the turn starts with the window of the
\* in-memory history (empty when there is none); when the save of the
\* finished exchange fails, process_query still returns the answer, with the
\* exchange already appended to the in-memory history.
C16_StoreFailureTolerated ==
    [][ /\ (pc \in {"idle", "returned"} /\ obs'.load_failed)
           => /\ pc' = "classify"
              /\ IsLastWindow(state'.messages, user_conversation_histories[call'.user_id])
        /\ (pc = "END" /\ obs'.save_failed)
           => /\ pc' = "returned"
              /\ result'.success
              /\ result'.model_response = state.final_response
              /\ user_conversation_histories'[call.user_id] =
                     Append(user_conversation_histories[call.user_id], <<call.user_input, state.final_response>>)
              /\ blob' = blob
        /\ pc' # "raised" ]_vars

\* a turn whose load and save both failed, started from 3 pairs kept in memory
C16_Witness ==
    /\ pc = "returned"
    /\ obs.load_failed /\ obs.save_failed
    /\ result.success
    /\ Len(state.messages) = 4
    /\ Len(blob[call.user_id]) < Len(user_conversation_histories[call.user_id])

\* C17: the persisted history of a user is append-only: every pair stored
\* before a step is still stored after it, in the same order, and a turn
\* whose save succeeds adds its exchange at the end; this includes the turns
\* of an assistant whose in-memory store is empty while the persistent store
\* holds earlier pairs.
C17_AppendOnly ==
    [][ \A u \in Users :
          /\ Len(blob[u]) <= Len(blob'[u])
          /\ SubSeq(blob'[u], 1, Len(blob[u])) = blob[u]
          /\ blob'[u] # blob[u]
                => blob'[u] = Append(blob[u], <<call.user_input, state.final_response>>) ]_vars

\* C18: the history retained for a user, in memory and in the persistent
\* store, never holds more than max_conversation_history pairs, however many
\* turns the user completes.
C18_HistoryCapped ==
    \A u \in Users :
        /\ Len(user_conversation_histories[u]) <= MaxConversationHistory
        /\ Len(blob[u]) <= MaxConversationHistory

\* no part of the reply from a "{" to a later "}" is a JSON object
Undecodable(content) ==
    ~ \E i, j \in 1..Len(content) :
          /\ i < j
          /\ content[i] = "{" /\ content[j] = "}"
          /\ JsonValid(SubSeq(content, i, j))

\* C20: classify never propagates a failure: when the model call fails or
\* its reply cannot be decoded, the step sets intent to general and
\* rephrased_prompt to the raw user_prompt, and the turn continues with
\* general_response.
C20_ClassifyNeverFails ==
    [][ (pc = "classify" /\ (~obs'.reply.ok \/ Undecodable(obs'.reply.content)))
           => /\ state'.intent = "general"
              /\ state'.rephrased_prompt = state.user_prompt
              /\ pc' = "general" ]_vars

\* a reply with braces that is not JSON was classified general
C20_Witness ==
    /\ pc = "general" /\ obs.prev = "classify"
    /\ obs.reply.ok /\ Contains(obs.reply.content, "{") /\ Undecodable(obs.reply.content)
    /\ state.user_prompt # <<>>
    /\ state.intent = "general"
    /\ state.rephrased_prompt = state.user_prompt

\* C19: two turns served at the same time, for the same user or not, each
\* own their Run State: a step that is not a step of thread t leaves the Run
\* State of t as it was, messages included, and the messages of a finished
\* turn end with that turn's own exchange.
C19_IndependentRunState ==
    [][ \A t \in ThreadIds :
          /\ (runs[t].pc # "idle" /\ runs'[t] = runs[t])
                => heap'[runs[t].state.messages] = heap[runs[t].state.messages]
          /\ runs'[t].pc = "END"
                => LET msgs == heap'[runs'[t].state.messages]
                   IN /\ msgs # <<>>
                      /\ msgs[Len(msgs)] = [user |-> runs'[t].call.user_input, bot |-> runs'[t].state.final_response]
                      /\ Len(msgs) <= 4 ]_vars

\* both turns of the same user are in flight and both have written to their Run State
C19_Witness ==
    /\ runs[1].pc = "END" /\ runs[2].pc = "error_analyzer"
    /\ runs[1].call.user_id = "u1" /\ runs[2].call.user_id = "u1"
    /\ runs[1].state.retry_count = 0 /\ runs[2].state.retry_count = 1
    /\ runs[1].state.final_response # <<>> /\ runs[2].state.error_msg # <<>>
    /\ runs[1].state.messages # runs[2].state.messages
    /\ heap[runs[1].state.messages] # heap[runs[2].state.messages]

\* the failure descriptions of the query engine
EngineFailures == {o.msg : o \in {e \in EngineOutcomes : e.kind = "error"}}

\* C21: when the query engine fails in execute, the step does not raise: it
\* sets error_msg to the failure description, adds exactly 1 to retry_count,
\* leaves sql_query and final_response as they were and hands over to
\* error_analyzer.
C21_FailedExecution ==
    [][ (pc = "execute" /\ obs'.failed_calls = obs.failed_calls + 1)
           => /\ state'.error_msg \in EngineFailures
              /\ state'.retry_count = state.retry_count + 1
              /\ state'.sql_query = state.sql_query
              /\ state'.final_response = state.final_response
              /\ pc' = "error_analyzer" ]_vars

\* the second failed execution of a call
C21_Witness ==
    /\ pc = "error_analyzer" /\ obs.prev = "execute"
    /\ obs.failed_calls = 2 /\ obs.last_exec.kind = "error"
    /\ state.retry_count = 2
    /\ state.error_msg \in EngineFailures
    /\ state.sql_query # <<>>

\* C22: with an empty sql_query execute sets error_msg and returns without
\* invoking the query engine and without changing retry_count, so the
\* attempt is not counted: below the ceiling the error_analyzer step that
\* follows still consults the model.
C22_EmptySqlNotCounted ==
    [][ /\ (pc = "execute" /\ state.sql_query = <<>>)
           => /\ state'.error_msg = <<"No SQL query to execute">>
              /\ obs'.engine_calls = obs.engine_calls
              /\ state'.retry_count = state.retry_count
              /\ state'.final_response = state.final_response
              /\ pc' = "error_analyzer"
        /\ (pc = "error_analyzer" /\ obs.prev = "execute" /\ obs.engine_calls = 0
              /\ state.error_msg = <<"No SQL query to execute">> /\ max_retries > 0)
           => /\ state.retry_count = 0
              /\ obs'.consulted
              /\ ~IsPrefix(<<"Failed after ">>, state'.final_response) ]_vars

\* an execute without SQL after an earlier pass of the same call was analysed
C22_Witness ==
    /\ pc = "error_analyzer" /\ obs.prev = "execute"
    /\ obs.decided # {} /\ obs.engine_calls = 0
    /\ state.error_msg = <<"No SQL query to execute">>
    /\ state.retry_count = 0

\* C23: within a turn retry_count never decreases and changes only in
\* execute, by +1 on a failed execution; at the start of every turn it is 0,
\* whatever it was at the end of the previous turn.
C23_RetryCount ==
    [][ /\ pc' = "classify" => state'.retry_count = 0
        /\ pc # "idle" => state'.retry_count >= state.retry_count
        /\ (pc # "idle" /\ state'.retry_count # state.retry_count)
              => /\ pc = "execute"
                 /\ state'.retry_count = state.retry_count + 1
                 /\ obs'.failed_calls = obs.failed_calls + 1 ]_vars

\* the second call starts at 0 after a first call that ended at the ceiling
C23_Witness ==
    /\ pc = "classify"
    /\ Len(conversation_data_db) = 1
    /\ IsPrefix(<<"Failed after ">>, result.model_response)
    /\ state.retry_count = 0

AnalysisActions == {"retry", "rephrase", "ask_user", "fail", "end"}

\* C24: analysis_action is empty in every state of a turn before
\* error_analyzer has run, only error_analyzer writes it, and once
\* error_analyzer has run it is one of retry, rephrase, ask_user, fail, end.
C24_AnalysisAction ==
    /\ [](obs.decided = {} => state.analysis_action = "")
    /\ [](obs.decided # {} => state.analysis_action \in AnalysisActions \cap obs.decided)
    /\ [][ (pc # "error_analyzer" /\ pc # "idle") => state'.analysis_action = state.analysis_action ]_vars

\* the decision of the first pass is still in place while the second pass executes
C24_Witness ==
    /\ pc = "execute"
    /\ obs.decided = {"retry"}
    /\ state.analysis_action = "retry"

\* C25: when generate_sql fails (the model call raises) it sets error_msg
\* and leaves sql_query unset, so that the execute step that follows has no
\* SQL to run; on the first attempt and on every retry or rephrase pass.
C25_FailedGenerateNoSql ==
    [][ (pc = "generate_sql" /\ IsPrefix(<<"Failed to generate SQL query: ">>, state'.error_msg))
           => /\ pc' = "execute"
              /\ state'.sql_query = <<>> ]_vars

IsFenceToken(t) == t \in {Fence, FenceSql}

\* the part of text from its first to its last token that is not whitespace
Trimmed(text) ==
    LET solid == {i \in 1..Len(text) : text[i] \notin WS}
    IN IF solid = {} THEN <<>>
       ELSE SubSeq(text, CHOOSE i \in solid : \A j \in solid : i <= j,
                         CHOOSE i \in solid : \A j \in solid : j <= i)

\* the SQL text of a reply: what follows the first sql fence, or else the
\* first plain fence, up to the next fence or the end; the whole reply when
\* it has no fence
SqlTextOf(reply) ==
    LET opens == IF \E i \in 1..Len(reply) : reply[i] = FenceSql
                 THEN {i \in 1..Len(reply) : reply[i] = FenceSql}
                 ELSE {i \in 1..Len(reply) : reply[i] = Fence}
    IN IF opens = {} THEN Trimmed(reply)
       ELSE LET open == CHOOSE i \in opens : \A j \in opens : i <= j
                closes == {i \in (open + 1)..Len(reply) : IsFenceToken(reply[i])}
                close == IF closes = {} THEN Len(reply) + 1
                         ELSE CHOOSE i \in closes : \A j \in closes : i <= j
            IN Trimmed(SubSeq(reply, open + 1, close - 1))

\* C26: the sql_query a successful generate_sql stores holds no code-fence
\* markup: for a reply with an sql fence, with a plain fence or with no
\* fence it is the SQL text alone, without surrounding whitespace.
C26_CleanSql ==
    (pc = "execute" /\ obs.prev = "generate_sql" /\ obs.reply.ok)
        => /\ state.sql_query = SqlTextOf(obs.reply.content)
           /\ \A i \in 1..Len(state.sql_query) : ~IsFenceToken(state.sql_query[i])
           /\ state.sql_query # <<>> => (Head(state.sql_query) \notin WS /\ state.sql_query[Len(state.sql_query)] \notin WS)

\* a reply with prose, an sql fence and a closing fence was reduced to the SQL
C26_Witness ==
    /\ pc = "execute" /\ obs.prev = "generate_sql" /\ obs.reply.ok
    /\ obs.reply.content = <<"Here it is:", FenceSql, "SELECT 1", Fence>>
    /\ state.sql_query = <<"SELECT 1">>

\* the reply is an object that decodes and carries this action
HasAction(r, a) ==
    /\ r.ok
    /\ ~Undecodable(r.content)
    /\ \E i \in 1..(Len(r.content) - 1) : r.content[i] = "action" /\ r.content[i + 1] = a

\* the reply is an object that decodes and carries a suggested SQL text
Suggests(r) ==
    /\ r.ok
    /\ ~Undecodable(r.content)
    /\ \E i \in 1..(Len(r.content) - 1) : r.content[i] = "suggested_sql"

Suggested(r) == r.content[(CHOOSE i \in 1..(Len(r.content) - 1) : r.content[i] = "suggested_sql") + 1]

\* C27: when error_analyzer decides retry and the model supplied a suggested
\* SQL, sql_query is that text when the step returns; the backoff of
\* min(2^retry_count, 16) seconds is slept inside that step, before
\* generate_sql runs again, and is slept for no other decision.
C27_RetryInstallsAndBacksOff ==
    [][pc = "error_analyzer" =>
         /\ state'.analysis_action = "retry" =>
              /\ HasAction(obs'.reply, "retry")
              /\ Suggests(obs'.reply) => state'.sql_query = Txt(Suggested(obs'.reply))
              /\ obs'.slept = BackoffTable(state.retry_count)
              /\ obs'.engine_calls = obs.engine_calls
              /\ pc' = "generate_sql"
         /\ state'.analysis_action # "retry" => obs'.slept = 0]_vars

C27_Witness ==
    /\ pc = "generate_sql"
    /\ obs.prev = "error_analyzer"
    /\ state.analysis_action = "retry"
    /\ state.sql_query = <<"SELECT 3">>
    /\ state.retry_count = 5
    /\ obs.slept = 16

\* C28: when error_analyzer decides rephrase, sql_query and rephrased_prompt
\* are the same after the step as before it, whatever the reply suggested,
\* and the generate_sql pass that follows leaves rephrased_prompt as it was.
C28_RephraseKeepsSqlAndPrompt ==
    [][/\ pc = "error_analyzer" /\ state'.analysis_action = "rephrase" =>
            /\ state'.sql_query = state.sql_query
            /\ state'.rephrased_prompt = state.rephrased_prompt
            /\ pc' = "generate_sql"
       /\ pc = "generate_sql" => state'.rephrased_prompt = state.rephrased_prompt]_vars

C28_Witness ==
    /\ pc = "generate_sql"
    /\ obs.prev = "error_analyzer"
    /\ state.analysis_action = "rephrase"
    /\ Suggests(obs.reply)
    /\ state.sql_query # Txt(Suggested(obs.reply))

\* C29: with an empty error_msg error_analyzer only sets analysis_action to
\* end: the model is not asked, nothing is slept, and final_response,
\* sql_query, retry_count and analysis are unchanged.
C29_NoErrorIsNoOp ==
    [][pc = "error_analyzer" /\ state.error_msg = <<>> =>
         /\ state' = [state EXCEPT !.analysis_action = "end"]
         /\ ~obs'.consulted
         /\ obs'.slept = 0
         /\ pc' = "update_history"]_vars

C29_Witness ==
    /\ pc = "update_history"
    /\ obs.prev = "error_analyzer"
    /\ state.analysis_action = "end"
    /\ state.retry_count > 0
    /\ state.sql_query # <<>>
    /\ ~obs.consulted

\* the text holds the other text as a contiguous part
HasPart(text, part) ==
    \E i \in 0..(Len(text) - Len(part)) : SubSeq(text, i + 1, i + Len(part)) = part

\* the model failed, or its reply does not decode, or carries no action or
\* an action other than retry, rephrase and ask_user
UnusableReply(r) == \A a \in {"retry", "rephrase", "ask_user"} : ~HasAction(r, a)

\* C30: error_analyzer never raises and always decides: a failed model call,
\* an undecodable reply, a reply without action or with an action outside
\* retry, rephrase and ask_user give fail; when the decision is fail or
\* ask_user, final_response contains the current error_msg.
C30_AnalyzerAlwaysDecides ==
    [][pc = "error_analyzer" =>
         /\ pc' # "raised"
         /\ state'.analysis_action \in AnalysisActions
         /\ obs'.consulted /\ UnusableReply(obs'.reply) => state'.analysis_action = "fail"
         /\ state'.analysis_action \in {"fail", "ask_user"} =>
              /\ state.error_msg # <<>>
              /\ state'.error_msg = state.error_msg
              /\ HasPart(state'.final_response, state.error_msg)]_vars

C30_Witness ==
    /\ obs.prev = "error_analyzer"
    /\ obs.consulted
    /\ obs.reply.ok
    /\ Undecodable(obs.reply.content)
    /\ state.analysis_action = "fail"
    /\ HasPart(state.final_response, state.error_msg)

\* C31: update_history appends exactly one pair of user_prompt and
\* final_response at the end of messages and leaves the earlier pairs
\* unchanged; when final_response is empty the bot text of that pair is the
\* default text, not the empty text.
C31_HistoryPairAppended ==
    [][pc = "update_history" =>
         state'.messages =
             Append(state.messages,
                    [user |-> state.user_prompt,
                     bot |-> IF state.final_response = <<>>
                             THEN <<"No response generated">>
                             ELSE state.final_response])]_vars

\* the first brace-delimited object of a reply: from its first opening
\* brace to the first closing brace after it
FirstOpen(reply) == CHOOSE i \in 1..Len(reply) : reply[i] = "{" /\ \A j \in 1..(i - 1) : reply[j] # "{"

FirstClose(reply) ==
    CHOOSE j \in (FirstOpen(reply) + 1)..Len(reply) :
        reply[j] = "}" /\ \A k \in (FirstOpen(reply) + 1)..(j - 1) : reply[k] # "}"

HoldsObject(reply) ==
    \E i, j \in 1..Len(reply) : i < j /\ reply[i] = "{" /\ reply[j] = "}"

\* the keys and values between the braces of the first object
FirstObjectBody(reply) == SubSeq(reply, FirstOpen(reply) + 1, FirstClose(reply) - 1)

Decodes(body) == Len(body) % 2 = 0

\* a body of distinct keys as a dictionary
DictOf(body) ==
    [k \in {body[2 * i - 1] : i \in 1..(Len(body) \div 2)} |->
        body[2 * (CHOOSE i \in 1..(Len(body) \div 2) : body[2 * i - 1] = k)]]

DistinctKeys(body) ==
    \A i, j \in 1..(Len(body) \div 2) : body[2 * i - 1] = body[2 * j - 1] => i = j

\* C32: parse_json_response returns the first top-level brace-delimited
\* object of the reply, also when further text or further objects follow it;
\* when the reply holds no object or the object does not decode it returns a
\* sentinel with an error tag, with the raw text on a decode failure.
C32_FirstObjectParsed ==
    obs.prev = "parse_json_response" =>
        LET reply == obs.reply.content
        IN IF HoldsObject(reply) /\ Decodes(FirstObjectBody(reply))
           THEN DistinctKeys(FirstObjectBody(reply)) => result = DictOf(FirstObjectBody(reply))
           ELSE /\ "error" \in DOMAIN result
                /\ HoldsObject(reply) => "raw_response" \in DOMAIN result

\* what record_comment(user_query, comment) may make of the entries old
CommentRecorded(old, new, user_query, comment) ==
    IF \E i \in 1..Len(old) : old[i].query = user_query
    THEN /\ Len(new) = Len(old)
         /\ \A i \in 1..Len(old) :
              IF old[i].query = user_query /\ \A j \in 1..(i - 1) : old[j].query # user_query
              THEN /\ new[i].query = old[i].query
                   /\ new[i].feedback = old[i].feedback
                   /\ comment # Absent => new[i].comments = comment
              ELSE new[i] = old[i]
    ELSE /\ Len(new) = Len(old) + 1
         /\ SubSeq(new, 1, Len(old)) = old
         /\ new[Len(new)].query = user_query
         /\ new[Len(new)].feedback = NoFeedbackText
         /\ comment # Absent => new[Len(new)].comments = comment

\* C33: record_comment for a query text that has an entry changes only the
\* comment of the first entry with that text; its feedback label, the other
\* entries and the number of entries stay.  For a query text without entry
\* it appends exactly one entry with the default feedback label.
C33_CommentFrame ==
    [][\A u \in Users, q \in FeedbackQueries, c \in Comments :
          feedback_and_comments' = [feedback_and_comments EXCEPT ![u] = record_comment(@, q, c)]
              => CommentRecorded(feedback_and_comments[u], feedback_and_comments'[u], q, c)]_vars

C33_Witness ==
    \E u \in Users :
        LET e == feedback_and_comments[u]
        IN /\ Len(e) = 3
           /\ e[1].query = e[2].query
           /\ e[1].feedback \notin {NoFeedbackText, e[2].feedback}
           /\ e[1].comments # NoCommentText
           /\ e[2].comments = NoCommentText
           /\ e[3].query # e[1].query
           /\ e[3].feedback = NoFeedbackText
           /\ e[3].comments # NoCommentText

\* C34: whatever the model replies to the classification prompt, the intent
\* classify stores is one of greeting, general, data_query, so the edge out
\* of classify has a target and the turn never fails at routing.
C34_IntentRoutable ==
    /\ obs.ran.classify > 0 => state.intent \in {"greeting", "general", "data_query"}
    /\ obs.prev = "classify" => pc \in {"general", "retrieve"}

\* C35: after a retry decision the graph runs generate_sql before execute.
\* The SQL the next execute runs is the output of that generate_sql pass
\* whenever the pass succeeds; the SQL suggested to error_analyzer is run
\* only when the pass fails and so leaves sql_query as it was.
C35_RetryRegenerates ==
    [][/\ pc = "error_analyzer" /\ state'.analysis_action = "retry" => pc' = "generate_sql"
       /\ pc = "generate_sql" /\ state.analysis_action = "retry" =>
            /\ pc' = "execute"
            /\ obs'.engine_calls = obs.engine_calls
            /\ IF obs'.reply.ok
               THEN state'.sql_query = SqlTextOf(obs'.reply.content)
               ELSE state'.sql_query = state.sql_query
            /\ (Suggests(obs.reply) /\ state'.sql_query # <<>>
                  /\ state'.sql_query = Txt(Suggested(obs.reply))) => ~obs'.reply.ok
       /\ pc = "execute" =>
            /\ state'.sql_query = state.sql_query
            /\ obs'.engine_calls = obs.engine_calls + (IF state.sql_query # <<>> THEN 1 ELSE 0)]_vars

\* the suggested SQL was run after a failed generate_sql pass
C35_Witness ==
    /\ obs.prev = "execute"
    /\ state.analysis_action = "retry"
    /\ state.sql_query = <<"SELECT 3">>
    /\ state.error_msg = <<>>
    /\ obs.last_exec.kind = "df"
    /\ obs.engine_calls = 1

\* the two texts execute_sql writes on success
SuccessText(s) ==
    \/ s.final_response = <<"No data found matching your query.">>
    \/ /\ IsPrefix(<<"Results for '">> \o s.user_prompt \o <<"':">>, s.final_response)
       /\ IsSuffix(s.results, s.final_response)
       /\ s.results # <<>>

\* the texts error_analyzer writes for fail and ask_user
ErrorText(s) ==
    \/ s.final_response = <<"Error: ">> \o s.error_msg \o <<". Could you please clarify your question?">>
    \/ \E n \in 0..(MaxBackoffRetries + 1) :
          s.final_response = <<"Failed after ", ToString(n), " attempts: ">> \o s.error_msg
    \/ s.final_response = <<"Unable to process your request: ">> \o s.error_msg
    \/ s.final_response = <<"An unexpected error occurred: ">> \o s.error_msg

\* C36: when update_history runs in a data_query turn, analysis_action is
\* end exactly when error_msg is empty, and final_response is then the
\* success text; it is fail or ask_user exactly when error_msg is not empty,
\* and final_response is then an error text; final_response is never empty
\* and analysis_action is never retry or rephrase.
C36_DecisionConsistent ==
    (pc = "update_history" /\ state.intent = "data_query") =>
        /\ state.analysis_action \in {"end", "fail", "ask_user"}
        /\ state.analysis_action = "end" <=> state.error_msg = <<>>
        /\ state.analysis_action = "end" => SuccessText(state)
        /\ state.analysis_action \in {"fail", "ask_user"} => ErrorText(state)
        /\ state.final_response # <<>>

C36_Witness ==
    /\ pc = "update_history"
    /\ state.intent = "data_query"
    /\ state.analysis_action = "ask_user"
    /\ state.retry_count = 2
    /\ state.sql_query = <<"SELECT 3">>
    /\ state.error_msg = <<"BigQuery API error: ", "503 backend error">>

\* the question texts of a caller
OwnTexts(user_id) ==
    {OwnPrompt(user_id, n) : n \in 1..MaxCalls}
        \cup {OwnStored(user_id, HistoryWindow - 1)[i][1] : i \in 1..(HistoryWindow - 1)}

\* C37: a turn that completes for a user u appends exactly one pair
\* (user_input, final_response) at the end of the in-memory history of u and
\* changes the history of no other user; a turn without user id changes no
\* history; the history loaded for a turn of u holds only exchanges of u.
C37_HistoriesPerUser ==
    /\ [][/\ pc = "END" =>
               IF call.user_id # NoUser
               THEN /\ user_conversation_histories' =
                          [user_conversation_histories EXCEPT
                             ![call.user_id] = Append(@, <<call.user_input, state.final_response>>)]
                    /\ result'.model_response = state.final_response
                    /\ \A v \in TwoUsers \ {call.user_id} : blob'[v] = blob[v]
               ELSE /\ user_conversation_histories' = user_conversation_histories
                    /\ blob' = blob
          /\ pc # "END" => (user_conversation_histories' = user_conversation_histories /\ blob' = blob)]_vars
    /\ [](pc = "classify" =>
             /\ \A i \in 1..Len(state.messages) : state.messages[i].user \in OwnTexts(call.user_id)
             /\ call.user_id = NoUser => state.messages = <<>>)

\* both users have completed a turn, the second starting from a stored history
C37_Witness ==
    /\ pc = "returned"
    /\ call.user_id = "u2"
    /\ Len(state.messages) = HistoryWindow
    /\ Len(user_conversation_histories["u1"]) = 1
    /\ user_conversation_histories["u2"] = <<<<OwnPrompt("u2", 2), state.final_response>>>>
    /\ state.final_response # <<>>

CannedError == <<"I encountered an error while processing your request. Please try again.">>

\* C38: when the workflow raises inside process_query, the call returns
\* success = False with the canned error response, exactly one error entry is
\* appended to the conversation log, and the history of the user, in memory
\* and persisted, is not changed by that turn.
C38_RaisedTurn ==
    /\ [][pc = "raised" =>
             /\ pc' = "returned"
             /\ result'.success = FALSE
             /\ result'.model_response = CannedError
             /\ conversation_data_db' =
                    Append(conversation_data_db,
                           [user_query |-> call.user_input, sql_query |-> <<"Error occurred">>, response |-> CannedError])
             /\ user_conversation_histories' = user_conversation_histories
             /\ blob' = blob]_vars
    /\ []((pc = "returned" /\ result.success = FALSE) =>
             /\ \A u \in TwoUsers :
                  /\ \A i \in 1..Len(user_conversation_histories[u]) :
                        user_conversation_histories[u][i][1] # call.user_input
                  /\ \A i \in 1..Len(blob[u]) : blob[u][i][1] # call.user_input
             /\ Cardinality({i \in 1..Len(conversation_data_db) :
                               conversation_data_db[i].user_query = call.user_input}) = 1)

\* the second turn of a user raised after the first had completed
C38_Witness ==
    /\ pc = "returned"
    /\ result.success = FALSE
    /\ call.user_id = "u1"
    /\ Len(conversation_data_db) = 2
    /\ Len(user_conversation_histories["u1"]) = 1
    /\ use_blob_sessions
    /\ Len(blob["u1"]) = 1

\* C39: across consecutive turns of one user, the history window of a new
\* turn is most-recent-last and ends with the exchange of the turn completed
\* just before it, also when the save of that turn failed while the
\* persistent store still holds older pairs.
C39_WindowEndsWithLastTurn ==
    (pc = "classify" /\ conversation_data_db # <<>>) =>
        LET last == conversation_data_db[Len(conversation_data_db)]
        IN /\ state.messages # <<>>
           /\ state.messages[Len(state.messages)] = [user |-> last.user_query, bot |-> last.response]

====
